---- MODULE Spec2Model ----
(***************************************************************************)
(* A model of the BigQuery NL2SQL tools of mutil_tool_agent:               *)
(* get_database_settings, initial_bq_nl2sql, run_bigquery_validation (with *)
(* its inner cleanup_sql), display_results_as_table and                    *)
(* display_results_summary, and the agent's setup_before_agent_call.       *)
(*                                                                         *)
(* Texts are sequences of one-character strings.  An optional value is a   *)
(* sequence of length 0 (Python's None) or 1 (the value).                  *)
(***************************************************************************)
EXTENDS Integers, Sequences, FiniteSets, TLC

VARIABLES
    database_settings,  \* tools.database_settings: None or Some(settings)
    bq_client,          \* tools.bq_client: None or Some(client handle)
    session,            \* the session-state mapping: key -> optional value
    call,               \* the call being served: operation and arguments
    ret,                \* what the call returned (or raised)
    trace,              \* collaborator operations the call invoked, in order
    ncalls,             \* calls served so far
    schemaCalls,        \* invocations of get_bigquery_schema so far
    settingsCalls       \* calls of get_database_settings so far

vars == <<database_settings, bq_client, session, call, ret, trace, ncalls,
          schemaCalls, settingsCalls>>

None == <<>>
Some(v) == <<v>>
IsNone(o) == Len(o) = 0
Val(o) == o[1]

\* how a call ends: it returns a value, or an exception leaves it
Return(v) == [raised |-> FALSE, value |-> v]
Raise(msg) == [raised |-> TRUE, value |-> msg]

----------------------------------------------------------------------------
(* Bounds of the model.                                                    *)

MaxFrags == 3       \* fragments concatenated into an input text of cleanup_sql
MaxSqlFrags == 2    \* fragments concatenated into a statement given to the validator
MaxCalls == 3       \* calls in one behaviour of the process
MaxGenFrags == 3    \* fragments concatenated into a completion text
MaxCols == 2        \* column names in a relevant_columns argument
ExtraRows == 2      \* rows a result may have beyond MAX_NUM_ROWS

----------------------------------------------------------------------------
(* Program constants.                                                      *)

MAX_NUM_ROWS == 80

----------------------------------------------------------------------------
(* Text primitives of the Python string type.                              *)

BS == "\\"
DQ == "\""
SQ == "'"
NL == "\n"
SP == " "
BT == "BACKTICK"   \* the grave accent, which a TLA+ string cannot hold

UpperCase == <<"A", "B", "C", "D", "E", "F", "G", "H", "I", "J", "K", "L", "M",
               "N", "O", "P", "Q", "R", "S", "T", "U", "V", "W", "X", "Y", "Z">>
LowerCase == <<"a", "b", "c", "d", "e", "f", "g", "h", "i", "j", "k", "l", "m",
               "n", "o", "p", "q", "r", "s", "t", "u", "v", "w", "x", "y", "z">>

\* str.lower() on one character
LowerChar(c) ==
    IF \E i \in 1..26 : UpperCase[i] = c
    THEN LowerCase[CHOOSE i \in 1..26 : UpperCase[i] = c]
    ELSE c

\* str.lower()
Lower(s) == [i \in 1..Len(s) |-> LowerChar(s[i])]

\* s[i:i+len(p)] == p
MatchAt(s, p, i) ==
    /\ i + Len(p) - 1 <= Len(s)
    /\ \A j \in 1..Len(p) : s[i + j - 1] = p[j]

\* p in s
Contains(s, p) == \E i \in 1..(Len(s) + 1) : MatchAt(s, p, i)

\* str.replace(old, new) for a non-empty old: leftmost, non-overlapping
RECURSIVE ReplaceFrom(_, _, _, _)
ReplaceFrom(s, old, new, i) ==
    IF i > Len(s) THEN <<>>
    ELSE IF MatchAt(s, old, i)
         THEN new \o ReplaceFrom(s, old, new, i + Len(old))
         ELSE <<s[i]>> \o ReplaceFrom(s, old, new, i + 1)

Replace(s, old, new) == ReplaceFrom(s, old, new, 1)

Digits == <<"0", "1", "2", "3", "4", "5", "6", "7", "8", "9">>

\* str(n) for a natural number
RECURSIVE StrNat(_)
StrNat(n) ==
    IF n < 10 THEN <<Digits[n + 1]>>
    ELSE StrNat(n \div 10) \o <<Digits[(n % 10) + 1]>>

RECURSIVE Concat(_)
Concat(ss) == IF Len(ss) = 0 THEN <<>> ELSE Head(ss) \o Concat(Tail(ss))

----------------------------------------------------------------------------
(* cleanup_sql, the inner function of run_bigquery_validation.             *)

LimitWord == <<"l", "i", "m", "i", "t">>

\* steps 1-4: the four literal replacements, in the code's order
Deescape(sql_string) ==
    LET s1 == Replace(sql_string, <<BS, DQ>>, <<DQ>>)
        s2 == Replace(s1, <<BS, NL>>, <<NL>>)
        s3 == Replace(s2, <<BS, SQ>>, <<SQ>>)
        s4 == Replace(s3, <<BS, "n">>, <<NL>>)
    IN  s4

\* the mutant of cleanup_sql: the limit test forgets to lower-case the text
cleanup_sql_case_sensitive(sql_string) ==
    LET s == Deescape(sql_string)
    IN  IF ~Contains(s, LimitWord)
        THEN s \o <<SP>> \o LimitWord \o <<SP>> \o StrNat(MAX_NUM_ROWS)
        ELSE s

cleanup_sql(sql_string) ==
    LET s == Deescape(sql_string)
    IN  IF ~Contains(Lower(s), LimitWord)
        THEN s \o <<SP>> \o LimitWord \o <<SP>> \o StrNat(MAX_NUM_ROWS)
        ELSE s

----------------------------------------------------------------------------
(* Row values.  A value carries its Python type, its text (str) and its     *)
(* numbers (int, bool, and the fields of a date or a datetime).            *)

IntV(i) == [t |-> "int", s |-> <<>>, n |-> <<i>>]
StrV(chars) == [t |-> "str", s |-> chars, n |-> <<>>]
BoolV(b) == [t |-> "bool", s |-> <<>>, n |-> <<IF b THEN 1 ELSE 0>>]
NullV == [t |-> "NoneType", s |-> <<>>, n |-> <<>>]
DateV(y, m, d) == [t |-> "date", s |-> <<>>, n |-> <<y, m, d>>]
DateTimeV(y, m, d, h, mi) == [t |-> "datetime", s |-> <<>>, n |-> <<y, m, d, h, mi>>]

\* isinstance(value, datetime.date): datetime.datetime is a subclass of date
IsDateInstance(v) == v.t \in {"date", "datetime"}

\* a %m or %d field of strftime: two digits, zero-padded
TwoDigits(k) == IF k < 10 THEN <<"0">> \o StrNat(k) ELSE StrNat(k)

\* value.strftime("%Y-%m-%d"), for a year of four digits
StrfYmd(v) == StrNat(v.n[1]) \o <<"-">> \o TwoDigits(v.n[2]) \o <<"-">> \o TwoDigits(v.n[3])

\* a row is a Python dict: its items in key order
Item(k, v) == [key |-> k, value |-> v]

K_id == <<"i", "d">>
K_d == <<"d">>
K_ts == <<"t", "s">>
K_name == <<"n", "a", "m", "e">>
K_ok == <<"o", "k">>

----------------------------------------------------------------------------
(* The warehouse as run_bigquery_validation sees it: which step raises, if *)
(* any, with which message, and the result's schema and rows.              *)

ErrMsgs == {<<"4", "0", "4">>, <<>>}

\* the i-th row the warehouse returns for a result of the given kind
RowAt(kind, i) ==
    IF kind = "ids"
    THEN <<Item(K_id, IntV(i))>>
    ELSE <<Item(K_id, IntV(i)),
           Item(K_d, DateV(2024, ((i - 1) % 12) + 1, ((i - 1) % 28) + 1)),
           Item(K_ts, DateTimeV(2025, 12, 31, i % 24, 59)),
           Item(K_name, IF i % 2 = 0 THEN NullV ELSE StrV(<<"a", "b">>)),
           Item(K_ok, BoolV(i % 3 = 0))>>

ResultRows(kind, n) == [i \in 1..n |-> RowAt(kind, i)]

ResultSizes == {0, 1, 3, MAX_NUM_ROWS} \cup (MAX_NUM_ROWS + 1)..(MAX_NUM_ROWS + ExtraRows)

Warehouse(fail, msg, schema, rows) ==
    [fail |-> fail, msg |-> msg, schema |-> schema, rows |-> rows]

WarehouseOutcomes ==
    {Warehouse("query", m, FALSE, <<>>) : m \in ErrMsgs}
    \cup {Warehouse(f, <<"4", "0", "4">>, FALSE, <<>>) : f \in {"client", "result"}}
    \cup {Warehouse("rows", <<"4", "0", "4">>, TRUE, ResultRows("mixed", 3))}
    \cup {Warehouse("none", <<>>, FALSE, <<>>)}
    \cup {Warehouse("none", <<>>, TRUE, ResultRows("ids", n)) : n \in ResultSizes}
    \cup {Warehouse("none", <<>>, TRUE, ResultRows("mixed", n)) : n \in {1, 3}}

\* bigquery.Client() is constructed only while no client is cached
Feasible(w, client) == w.fail = "client" => IsNone(client)

----------------------------------------------------------------------------
(* run_bigquery_validation.                                                *)

DisallowedMsg ==
    <<"I", "n", "v", "a", "l", "i", "d", " ", "S", "Q", "L", ":", " ", "C", "o",
      "n", "t", "a", "i", "n", "s", " ", "d", "i", "s", "a", "l", "l", "o", "w",
      "e", "d", " ", "D", "M", "L", "/", "D", "D", "L", " ", "o", "p", "e", "r",
      "a", "t", "i", "o", "n", "s", ".">>
NoResultsMsg ==
    <<"V", "a", "l", "i", "d", " ", "S", "Q", "L", ".", " ", "Q", "u", "e", "r",
      "y", " ", "e", "x", "e", "c", "u", "t", "e", "d", " ", "s", "u", "c", "c",
      "e", "s", "s", "f", "u", "l", "l", "y", " ", "(", "n", "o", " ", "r", "e",
      "s", "u", "l", "t", "s", ")", ".">>
InvalidPrefix == <<"I", "n", "v", "a", "l", "i", "d", " ", "S", "Q", "L", ":", " ">>
\* str() of the AttributeError raised by None.state
NoneTypeMsg ==
    <<"'", "N", "o", "n", "e", "T", "y", "p", "e", "'", " ", "o", "b", "j", "e",
      "c", "t", " ", "h", "a", "s", " ", "n", "o", " ", "a", "t", "t", "r", "i",
      "b", "u", "t", "e", " ", "'", "s", "t", "a", "t", "e", "'">>

Keywords == {
    <<"u", "p", "d", "a", "t", "e">>,
    <<"d", "e", "l", "e", "t", "e">>,
    <<"d", "r", "o", "p">>,
    <<"i", "n", "s", "e", "r", "t">>,
    <<"c", "r", "e", "a", "t", "e">>,
    <<"a", "l", "t", "e", "r">>,
    <<"t", "r", "u", "n", "c", "a", "t", "e">>,
    <<"m", "e", "r", "g", "e">> }

\* the mutant of DisallowedSearch: the (?i) flag is missing
DisallowedSearchCaseSensitive(sql_string) ==
    \E k \in Keywords : Contains(sql_string, k)

\* re.search(r"(?i)(update|delete|drop|insert|create|alter|truncate|merge)", sql_string)
DisallowedSearch(sql_string) ==
    \E k \in Keywords : Contains(Lower(sql_string), k)

\* the dict comprehension over row.items()
ConvertRow(row) ==
    [j \in 1..Len(row) |->
        Item(row[j].key,
             IF ~IsDateInstance(row[j].value)
             THEN row[j].value
             ELSE StrV(StrfYmd(row[j].value)))]

\* the mutant of Materialize: the [:MAX_NUM_ROWS] slice is missing
MaterializeUncut(results) ==
    [i \in 1..Len(results) |-> ConvertRow(results[i])]

\* [ {...} for row in results ][:MAX_NUM_ROWS]
Materialize(results) ==
    LET all == [i \in 1..Len(results) |-> ConvertRow(results[i])]
    IN  SubSeq(all, 1, IF Len(all) < MAX_NUM_ROWS THEN Len(all) ELSE MAX_NUM_ROWS)

FinalResult(qr, em) == [query_result |-> qr, error_message |-> em]

\* the except clause: final_result["error_message"] = f"Invalid SQL: {e}"
Caught(final_result, msg) ==
    [final_result EXCEPT !.error_message = Some(InvalidPrefix \o msg)]

\* The body of run_bigquery_validation after the cleanup: what it returns,
\* the collaborator operations it invokes, whether the client handle is now
\* cached and the session's "query_result" slot afterwards.
Validation(sql, tool_context, w, client, slot) ==
    LET init == FinalResult(None, None)
        build == IF IsNone(client) THEN <<"Client">> ELSE <<>>
        out(fr, tr, cl, sl) == [final_result |-> fr, trace |-> tr, client |-> cl, slot |-> sl]
    IN  IF DisallowedSearch(sql)
        THEN out([init EXCEPT !.error_message = Some(DisallowedMsg)], <<>>, client, slot)
        ELSE IF w.fail = "client"
        THEN out(Caught(init, w.msg), build, client, slot)
        ELSE IF w.fail = "query"
        THEN out(Caught(init, w.msg), build \o <<"query">>, Some("client"), slot)
        ELSE IF w.fail = "result"
        THEN out(Caught(init, w.msg), build \o <<"query", "result">>, Some("client"), slot)
        ELSE IF ~w.schema
        THEN out([init EXCEPT !.error_message = Some(NoResultsMsg)],
                 build \o <<"query", "result">>, Some("client"), slot)
        ELSE IF w.fail = "rows"
        THEN out(Caught(init, w.msg), build \o <<"query", "result", "rows">>,
                 Some("client"), slot)
        ELSE LET rows == Materialize(w.rows)
                 set == [init EXCEPT !.query_result = Some(rows)]
             IN  IF IsNone(tool_context)
                 THEN out(Caught(set, NoneTypeMsg),
                          build \o <<"query", "result", "rows">>, Some("client"), slot)
                 ELSE out(set, build \o <<"query", "result", "rows", "state">>,
                          Some("client"), Some(rows))

ValidationCall(sql, tool_context, w) ==
    [op |-> "run_bigquery_validation", sql_string |-> sql,
     tool_context |-> tool_context, warehouse |-> w]

\* the mutant of run_bigquery_validation: the slot is written with the
\* record's query_result on every path of a call that has a tool context
run_bigquery_validation_always_storing(sql_string, tool_context, w) ==
    LET r == Validation(cleanup_sql(sql_string), tool_context, w, bq_client,
                        session.query_result)
    IN  /\ Feasible(w, bq_client)
        /\ call' = ValidationCall(sql_string, tool_context, w)
        /\ ret' = Return(r.final_result)
        /\ trace' = r.trace
        /\ bq_client' = r.client
        /\ session' = [session EXCEPT !.query_result =
                          IF IsNone(tool_context) THEN r.slot
                          ELSE r.final_result.query_result]
        /\ ncalls' = ncalls + 1
        /\ UNCHANGED <<database_settings, schemaCalls, settingsCalls>>

run_bigquery_validation(sql_string, tool_context, w) ==
    LET r == Validation(cleanup_sql(sql_string), tool_context, w, bq_client,
                        session.query_result)
    IN  /\ Feasible(w, bq_client)
        /\ call' = ValidationCall(sql_string, tool_context, w)
        /\ ret' = Return(r.final_result)
        /\ trace' = r.trace
        /\ bq_client' = r.client
        /\ session' = [session EXCEPT !.query_result = r.slot]
        /\ ncalls' = ncalls + 1
        /\ UNCHANGED <<database_settings, schemaCalls, settingsCalls>>

----------------------------------------------------------------------------
(* get_database_settings and the schema introspector it memoises.  The     *)
(* introspector is a warehouse collaborator: a call of it raises, or       *)
(* returns a DDL text.                                                     *)

Introspection(raises, text) == [raises |-> raises, text |-> text]

SchemaOutcomes == {
    Introspection(TRUE, <<"t", "i", "m", "e", "o", "u", "t">>),
    Introspection(FALSE, <<>>),
    Introspection(FALSE, <<"C", "R", "E", "A", "T", "E", " ", "T", "A", "B", "L", "E", " ", "t">>) }

\* update_database_settings: the dict built around get_bigquery_schema()
update_database_settings(o) == [bq_ddl_schema |-> o.text]

\* the mutant of GetDatabaseSettings: the cache is never consulted
GetDatabaseSettingsUncached(settings, o) ==
    IF o.raises
    THEN [result |-> Raise(o.text), settings |-> settings, invoked |-> 1]
    ELSE [result |-> Return(update_database_settings(o)),
          settings |-> Some(update_database_settings(o)), invoked |-> 1]

\* get_database_settings: what it returns or raises, the global afterwards,
\* and how often it invoked get_bigquery_schema
GetDatabaseSettings(settings, o) ==
    IF IsNone(settings)
    THEN IF o.raises
         THEN [result |-> Raise(o.text), settings |-> settings, invoked |-> 1]
         ELSE [result |-> Return(update_database_settings(o)),
               settings |-> Some(update_database_settings(o)), invoked |-> 1]
    ELSE [result |-> Return(Val(settings)), settings |-> settings, invoked |-> 0]

SchemaTrace(r) == IF r.invoked = 1 THEN <<"get_bigquery_schema">> ELSE <<>>

get_database_settings(o) ==
    LET r == GetDatabaseSettings(database_settings, o)
    IN  /\ call' = [op |-> "get_database_settings", schema |-> o]
        /\ ret' = r.result
        /\ database_settings' = r.settings
        /\ trace' = SchemaTrace(r)
        /\ schemaCalls' = schemaCalls + r.invoked
        /\ settingsCalls' = settingsCalls + 1
        /\ ncalls' = ncalls + 1
        /\ UNCHANGED <<bq_client, session>>

\* agent.setup_before_agent_call
setup_before_agent_call(o) ==
    LET r == GetDatabaseSettings(database_settings, o)
    IN  /\ call' = [op |-> "setup_before_agent_call", schema |-> o]
        /\ ncalls' = ncalls + 1
        /\ UNCHANGED bq_client
        /\ IF IsNone(session.database_settings)
           THEN /\ database_settings' = r.settings
                /\ trace' = SchemaTrace(r)
                /\ schemaCalls' = schemaCalls + r.invoked
                /\ settingsCalls' = settingsCalls + 1
                /\ IF r.result.raised
                   THEN ret' = r.result /\ UNCHANGED session
                   ELSE /\ ret' = Return(None)
                        /\ session' = [session EXCEPT
                                          !.database_settings = Some(r.result.value)]
           ELSE /\ ret' = Return(None)
                /\ trace' = <<>>
                /\ UNCHANGED <<database_settings, session, schemaCalls, settingsCalls>>

----------------------------------------------------------------------------
(* initial_bq_nl2sql.  The language model is a collaborator: a completion  *)
(* raises, or carries a text, or carries none.                             *)

TAB == "\t"
Whitespace == {SP, NL, TAB}

RECURSIVE LStrip(_)
LStrip(s) == IF Len(s) > 0 /\ Head(s) \in Whitespace THEN LStrip(Tail(s)) ELSE s

RECURSIVE RStrip(_)
RStrip(s) ==
    IF Len(s) > 0 /\ s[Len(s)] \in Whitespace
    THEN RStrip(SubSeq(s, 1, Len(s) - 1))
    ELSE s

\* str.strip()
Strip(s) == RStrip(LStrip(s))

FenceSql == <<BT, BT, BT, "s", "q", "l">>
Fence == <<BT, BT, BT>>

ExplainPrefix ==
    <<"G", "e", "n", "e", "r", "a", "t", "e", "d", " ", "S", "Q", "L", " ", "f",
      "o", "r", " ", "q", "u", "e", "s", "t", "i", "o", "n", ":", " ">>

Completion(raises, text) == [raises |-> raises, text |-> text]

\* the mutant of ExtractSql: only the opening marker is removed
ExtractSqlOpeningOnly(text) ==
    IF IsNone(text) \/ Len(Val(text)) = 0
    THEN text
    ELSE Some(Strip(Replace(Val(text), FenceSql, <<>>)))

\* sql = response.text; if sql: sql = sql.replace(...).replace(...).strip()
ExtractSql(text) ==
    IF IsNone(text) \/ Len(Val(text)) = 0
    THEN text
    ELSE Some(Strip(Replace(Replace(Val(text), FenceSql, <<>>), Fence, <<>>)))

GenerationResult(question, sql) ==
    [explain |-> ExplainPrefix \o question, sql |-> sql,
     sql_results |-> None, nl_results |-> None]

initial_bq_nl2sql(question, o, llm) ==
    LET r == GetDatabaseSettings(database_settings, o)
    IN  /\ call' = [op |-> "initial_bq_nl2sql", question |-> question,
                    schema |-> o, completion |-> llm]
        /\ database_settings' = r.settings
        /\ schemaCalls' = schemaCalls + r.invoked
        /\ settingsCalls' = settingsCalls + 1
        /\ ncalls' = ncalls + 1
        /\ UNCHANGED <<bq_client, session>>
        /\ IF r.result.raised
           THEN ret' = r.result /\ trace' = SchemaTrace(r)
           ELSE /\ trace' = SchemaTrace(r) \o <<"generate_content">>
                /\ ret' = IF llm.raises
                          THEN Raise(Val(llm.text))
                          ELSE Return(GenerationResult(question, ExtractSql(llm.text)))

----------------------------------------------------------------------------
(* The presenters.  A record given to them is a Python dict: each of the   *)
(* keys query_result and sql_results is present or not, and a present key  *)
(* holds None or a list of rows.                                           *)

ResultRecord(has_qr, qr, has_sr, sr, em) ==
    [has_query_result |-> has_qr, query_result |-> qr,
     has_sql_results |-> has_sr, sql_results |-> sr, error_message |-> em]

\* the mutant of SourceRows: sql_results is read whenever query_result has no rows
SourceRowsByValue(final_result) ==
    IF final_result.has_query_result /\ Len(final_result.query_result) > 0
       /\ Len(Val(final_result.query_result)) > 0
    THEN final_result.query_result
    ELSE IF final_result.has_sql_results
    THEN final_result.sql_results
    ELSE None

\* if "query_result" in final_result: ... elif "sql_results" in final_result: ...
SourceRows(final_result) ==
    IF final_result.has_query_result
    THEN final_result.query_result
    ELSE IF final_result.has_sql_results
    THEN final_result.sql_results
    ELSE None

\* not rows
NoRows(rows) == IsNone(rows) \/ Len(Val(rows)) = 0

\* not error_message
NoError(em) == IsNone(em) \/ Len(Val(em)) = 0

NoDisplayMsg ==
    <<"N", "o", " ", "r", "e", "s", "u", "l", "t", "s", " ", "t", "o", " ", "d",
      "i", "s", "p", "l", "a", "y">>
NoSummaryMsg ==
    <<"N", "o", " ", "r", "e", "s", "u", "l", "t", "s", " ", "t", "o", " ", "s",
      "u", "m", "m", "a", "r", "i", "z", "e">>

\* list(row.keys())
Keys(row) == [j \in 1..Len(row) |-> row[j].key]

HasKey(row, k) == \E j \in 1..Len(row) : row[j].key = k

InSeq(x, seq) == \E j \in 1..Len(seq) : seq[j] = x

\* seq[:k] for k >= 0
Take(seq, k) == SubSeq(seq, 1, IF Len(seq) < k THEN Len(seq) ELSE k)

\* seq[:k] for any k: a negative k counts from the end
Slice(seq, k) ==
    IF k >= 0 THEN Take(seq, k)
    ELSE Take(seq, IF Len(seq) + k > 0 THEN Len(seq) + k ELSE 0)

\* str(value)
StrValue(v) ==
    CASE v.t = "int" -> StrNat(v.n[1])
      [] v.t = "str" -> v.s
      [] v.t = "bool" -> IF v.n[1] = 1 THEN <<"T", "r", "u", "e">>
                                       ELSE <<"F", "a", "l", "s", "e">>
      [] v.t = "NoneType" -> <<"N", "o", "n", "e">>
      [] v.t = "date" -> StrfYmd(v)
      [] v.t = "datetime" ->
            StrfYmd(v) \o <<SP>> \o TwoDigits(v.n[4]) \o <<":">> \o TwoDigits(v.n[5])
                \o <<":", "0", "0">>

\* type(value).__name__
TypeName(v) ==
    CASE v.t = "int" -> <<"i", "n", "t">>
      [] v.t = "str" -> <<"s", "t", "r">>
      [] v.t = "bool" -> <<"b", "o", "o", "l">>
      [] v.t = "NoneType" -> <<"N", "o", "n", "e", "T", "y", "p", "e">>
      [] v.t = "date" -> <<"d", "a", "t", "e">>
      [] v.t = "datetime" -> <<"d", "a", "t", "e", "t", "i", "m", "e">>

\* str(row.get(header, ''))
CellText(row, header) ==
    IF HasKey(row, header)
    THEN StrValue(row[CHOOSE j \in 1..Len(row) : row[j].key = header].value)
    ELSE <<>>

Repeat(c, k) == [i \in 1..k |-> c]

\* f"{text:<{width}}"
PadRight(text, width) ==
    IF Len(text) < width THEN text \o Repeat(SP, width - Len(text)) ELSE text

\* sep.join(parts)
RECURSIVE Join(_, _)
Join(parts, sep) ==
    IF Len(parts) = 0 THEN <<>>
    ELSE IF Len(parts) = 1 THEN parts[1]
    ELSE parts[1] \o sep \o Join(Tail(parts), sep)

\* the mutant of Headers: with no requested column present, every column is shown
HeadersFallbackAll(all_headers, relevant_columns) ==
    IF ~IsNone(relevant_columns) /\ Len(Val(relevant_columns)) > 0
    THEN LET headers == SelectSeq(Val(relevant_columns), LAMBDA h : InSeq(h, all_headers))
         IN  IF Len(headers) = 0 THEN all_headers ELSE headers
    ELSE all_headers

\* the column filter of display_results_as_table
Headers(all_headers, relevant_columns) ==
    IF ~IsNone(relevant_columns) /\ Len(Val(relevant_columns)) > 0
    THEN LET headers == SelectSeq(Val(relevant_columns), LAMBDA h : InSeq(h, all_headers))
         IN  IF Len(headers) = 0 THEN Take(all_headers, 5) ELSE headers
    ELSE all_headers

\* the keys of the col_widths dict, in insertion order: each header once
RECURSIVE WidthKeys(_)
WidthKeys(headers) ==
    IF Len(headers) = 0 THEN <<>>
    ELSE LET front == WidthKeys(SubSeq(headers, 1, Len(headers) - 1))
             last == headers[Len(headers)]
         IN  IF InSeq(last, front) THEN front ELSE Append(front, last)

RECURSIVE MaxOf(_)
MaxOf(ns) ==
    IF Len(ns) = 1 THEN ns[1]
    ELSE LET m == MaxOf(Tail(ns)) IN IF ns[1] > m THEN ns[1] ELSE m

\* col_widths[header]
ColWidth(rows, header) ==
    MaxOf(<<Len(header)>> \o [i \in 1..Len(rows) |-> Len(CellText(rows[i], header))])

Separator(rows, headers) ==
    LET keys == WidthKeys(headers)
    IN  <<"+">> \o Join([j \in 1..Len(keys) |-> Repeat("-", ColWidth(rows, keys[j]) + 2)],
                        <<"+">>) \o <<"+">>

HeaderRow(rows, headers) ==
    <<"|">> \o Concat([j \in 1..Len(headers) |->
                <<SP>> \o PadRight(headers[j], ColWidth(rows, headers[j])) \o <<SP, "|">>])

DataRow(rows, headers, row) ==
    <<"|">> \o Concat([j \in 1..Len(headers) |->
                LET width == ColWidth(rows, headers[j])
                    text == CellText(row, headers[j])
                    value == IF Len(text) > width
                             THEN Slice(text, width - 3) \o <<".", ".", ".">>
                             ELSE text
                IN  <<SP>> \o PadRight(value, width) \o <<SP, "|">>])

TotalRowsLabel == <<"T", "o", "t", "a", "l", " ", "r", "o", "w", "s", ":", " ">>
ShowingLabel == <<"S", "h", "o", "w", "i", "n", "g", " ">>
OfLabel == <<" ", "o", "f", " ">>
ColumnsLabel == <<" ", "c", "o", "l", "u", "m", "n", "s">>
ErrorLabel == <<"E", "r", "r", "o", "r", ":", " ">>

TableSummary(rows, headers, all_headers, error_message) ==
    <<NL>> \o TotalRowsLabel \o StrNat(Len(rows))
    \o (IF Len(headers) < Len(all_headers)
        THEN <<NL>> \o ShowingLabel \o StrNat(Len(headers)) \o OfLabel
                 \o StrNat(Len(all_headers)) \o ColumnsLabel
        ELSE <<>>)
    \o (IF ~NoError(error_message)
        THEN <<NL>> \o ErrorLabel \o Val(error_message)
        ELSE <<>>)

\* display_results_as_table: the text it returns
TableText(final_result, relevant_columns) ==
    LET source == SourceRows(final_result)
    IN  IF NoRows(source) THEN NoDisplayMsg
        ELSE LET rows == Val(source)
                 all_headers == Keys(rows[1])
                 headers == Headers(all_headers, relevant_columns)
                 separator == Separator(rows, headers)
                 table_lines ==
                     <<separator, HeaderRow(rows, headers), separator>>
                     \o [i \in 1..Len(rows) |-> DataRow(rows, headers, rows[i])]
                     \o <<separator>>
             IN  Join(table_lines, <<NL>>)
                     \o TableSummary(rows, headers, all_headers, final_result.error_message)

SummaryTitle ==
    <<"CHART", " ", "Q", "U", "E", "R", "Y", " ", "R", "E", "S", "U", "L", "T",
      "S", " ", "S", "U", "M", "M", "A", "R", "Y">>
RowsReturnedLabel ==
    <<"T", "o", "t", "a", "l", " ", "r", "o", "w", "s", " ", "r", "e", "t", "u",
      "r", "n", "e", "d", ":", " ">>
TotalColumnsLabel ==
    <<"T", "o", "t", "a", "l", " ", "c", "o", "l", "u", "m", "n", "s", ":", " ">>
ColumnListLabel == <<NL, "C", "o", "l", "u", "m", "n", "s", ":", " ">>
DataTypesLabel ==
    <<NL, "S", "a", "m", "p", "l", "e", " ", "d", "a", "t", "a", " ", "t", "y",
      "p", "e", "s", ":">>
SummaryErrorLabel == <<NL, "WARNING", " ", " ", "E", "r", "r", "o", "r", ":", " ">>

\* display_results_summary: the text it returns
SummaryText(final_result) ==
    LET source == SourceRows(final_result)
    IN  IF NoRows(source) THEN NoSummaryMsg
        ELSE LET rows == Val(source)
                 columns == Keys(rows[1])
                 sample_row == rows[1]
                 data_types ==
                     [j \in 1..Len(sample_row) |->
                         sample_row[j].key \o <<":", " ">> \o
                             (IF sample_row[j].value.t = "NoneType"
                              THEN <<"N", "U", "L", "L">>
                              ELSE TypeName(sample_row[j].value))]
                 shown == Take(data_types, 5)
                 summary_lines ==
                     <<SummaryTitle,
                       Repeat("=", 40),
                       RowsReturnedLabel \o StrNat(Len(rows)),
                       TotalColumnsLabel \o StrNat(Len(columns)),
                       ColumnListLabel \o Join(Take(columns, 5), <<",", " ">>)
                           \o (IF Len(columns) > 5 THEN <<".", ".", ".">> ELSE <<>>),
                       DataTypesLabel>>
                     \o [j \in 1..Len(shown) |-> <<SP, SP>> \o shown[j]]
                     \o (IF ~NoError(final_result.error_message)
                         THEN <<SummaryErrorLabel \o Val(final_result.error_message)>>
                         ELSE <<>>)
             IN  Join(summary_lines, <<NL>>)

display_results_as_table(final_result, relevant_columns) ==
    /\ call' = [op |-> "display_results_as_table", final_result |-> final_result,
                relevant_columns |-> relevant_columns]
    /\ ret' = Return(TableText(final_result, relevant_columns))
    /\ trace' = <<>>
    /\ ncalls' = ncalls + 1
    /\ UNCHANGED <<database_settings, bq_client, session, schemaCalls, settingsCalls>>

display_results_summary(final_result) ==
    /\ call' = [op |-> "display_results_summary", final_result |-> final_result,
                relevant_columns |-> None]
    /\ ret' = Return(SummaryText(final_result))
    /\ trace' = <<>>
    /\ ncalls' = ncalls + 1
    /\ UNCHANGED <<database_settings, bq_client, session, schemaCalls, settingsCalls>>

----------------------------------------------------------------------------
(* Input texts: concatenations of fragments.                               *)

SqlFragments == {
    <<"s", "e", "l", "e", "c", "t", " ", "x">>,
    <<" ", "f", "r", "o", "m", " ", "t">>,
    <<" ", "L", "I", "M", "I", "T", " ", "1", "0">>,
    <<" ", "L", "i", "m", "i", "t", "s">>,
    <<"l", "i", "m">>,
    <<"i", "t">>,
    <<BS, DQ>>,
    <<BS, NL>>,
    <<BS, SQ>>,
    <<BS, "n">>,
    <<BS>>,
    <<"n">> }

RECURSIVE TextsOf(_, _)
TextsOf(frags, n) ==
    IF n = 0 THEN {<<>>}
    ELSE LET shorter == TextsOf(frags, n - 1)
         IN  shorter \cup {t \o f : t \in shorter, f \in frags}

CleanupInputs == TextsOf(SqlFragments, MaxFrags)

ValidateFragments == {
    <<"s", "e", "l", "e", "c", "t", " ", "x">>,
    <<"u", "p", "d", "a", "t", "e", "d", "_", "a", "t">>,
    <<"D", "R", "O", "P", " ", "t">>,
    <<"M", "e", "r", "g", "e">>,
    <<"i", "n", "S", "E", "R", "T">>,
    <<"d", "e", "l", "e">>,
    <<"t", "e">>,
    <<"T", "R", "U", "N", "C", "A", "T", "E">>,
    <<"A", "l", "t", "e", "r">>,
    <<"c", "r", "e", "A", "T", "E">>,
    <<" ", "L", "I", "M", "I", "T", " ", "5">>,
    <<BS, "n">> }

ValidateInputs == TextsOf(ValidateFragments, MaxSqlFrags)

GenFragments == {
    FenceSql,
    Fence,
    <<BT>>,
    <<BT, BT>>,
    <<"s", "q", "l">>,
    <<"s", "e", "l", "e", "c", "t", " ", "1">>,
    <<SP>>,
    <<NL>> }

Completions ==
    {Completion(TRUE, Some(<<"q", "u", "o", "t", "a">>)), Completion(FALSE, None)}
    \cup {Completion(FALSE, Some(t)) : t \in TextsOf(GenFragments, MaxGenFrags)}

K_f == <<"f">>
K_zz == <<"z", "z">>

\* three rows of four columns; the last row lacks the key ok
Rows3x4 == <<
    <<Item(K_id, IntV(1)), Item(K_name, StrV(<<"A", "l", "i", "c", "e">>)),
      Item(K_d, StrV(<<"2", "0", "2", "4", "-", "0", "1", "-", "0", "1">>)),
      Item(K_ok, BoolV(TRUE))>>,
    <<Item(K_id, IntV(20)), Item(K_name, NullV),
      Item(K_d, StrV(<<>>)), Item(K_ok, BoolV(FALSE))>>,
    <<Item(K_id, IntV(300)), Item(K_name, StrV(<<"B", "o", "b">>)),
      Item(K_d, DateV(2024, 2, 29))>> >>

\* two rows of six columns
Rows2x6 == <<
    <<Item(K_name, StrV(<<"B", "o", "b">>)), Item(K_id, IntV(7)),
      Item(K_ts, DateTimeV(2025, 12, 31, 5, 59)), Item(K_ok, NullV),
      Item(K_d, IntV(0)), Item(K_f, StrV(<<"x">>))>>,
    <<Item(K_name, StrV(<<>>)), Item(K_id, IntV(12345)),
      Item(K_ts, NullV), Item(K_ok, BoolV(TRUE)),
      Item(K_d, IntV(1)), Item(K_f, StrV(<<"y", "y">>))>> >>

\* one row of one column
Rows1x1 == << <<Item(K_id, IntV(42))>> >>

RowLists == {None, Some(<<>>), Some(Rows3x4), Some(Rows2x6), Some(Rows1x1)}

ErrorTexts == {None, Some(<<"b", "a", "d">>)}

ResultRecords ==
    {ResultRecord(TRUE, qr, TRUE, sr, em) : qr \in RowLists, sr \in RowLists, em \in ErrorTexts}
    \cup {ResultRecord(TRUE, qr, FALSE, None, em) : qr \in RowLists, em \in ErrorTexts}
    \cup {ResultRecord(FALSE, None, TRUE, sr, em) : sr \in RowLists, em \in ErrorTexts}
    \cup {ResultRecord(FALSE, None, FALSE, None, em) : em \in ErrorTexts}

ColumnNames == {K_id, K_name, K_f, K_zz}

RECURSIVE ListsOf(_, _)
ListsOf(names, n) ==
    IF n = 0 THEN {<<>>}
    ELSE LET shorter == ListsOf(names, n - 1)
         IN  shorter \cup {Append(l, c) : l \in shorter, c \in names}

ColumnArgs == {None} \cup {Some(l) : l \in ListsOf(ColumnNames, MaxCols)}

Questions == {<<"h", "o", "w", " ", "m", "a", "n", "y", "?">>, <<"t", "o", "p", " ", "5">>}

----------------------------------------------------------------------------
(* The process at start-up: module globals unset, empty session.           *)

NoCall == [op |-> "none"]

InitGlobals ==
    /\ database_settings = None
    /\ bq_client = None
    /\ session = [query_result |-> None, database_settings |-> None]
    /\ ret = Return(None)
    /\ trace = <<>>
    /\ ncalls = 0
    /\ schemaCalls = 0
    /\ settingsCalls = 0

----------------------------------------------------------------------------
(* cleanup_sql applied to one input text.                                  *)

InitCleanup ==
    /\ InitGlobals
    /\ call \in {[op |-> "cleanup_sql", sql_string |-> t] : t \in CleanupInputs}

CleanupSql ==
    /\ ncalls = 0
    /\ call.op = "cleanup_sql"
    /\ ret' = Return(cleanup_sql(call.sql_string))
    /\ ncalls' = 1
    /\ UNCHANGED <<database_settings, bq_client, session, call, trace,
                   schemaCalls, settingsCalls>>

NextCleanup == CleanupSql

SpecCleanup == InitCleanup /\ [][NextCleanup]_vars

\* a case-insensitive occurrence of "limit", letter by letter
LimitLetters == <<{"l", "L"}, {"i", "I"}, {"m", "M"}, {"i", "I"}, {"t", "T"}>>
HasLimitAnyCase(s) ==
    \E i \in 1..Len(s) :
        /\ i + 4 <= Len(s)
        /\ \A j \in 1..5 : s[i + j - 1] \in LimitLetters[j]

LimitSuffix == <<" ", "l", "i", "m", "i", "t", " ", "8", "0">>
Limit10 == <<"L", "I", "M", "I", "T", " ", "1", "0">>

CleanupDone == ncalls = 1 /\ call.op = "cleanup_sql"

\* C7: cleanup_sql appends exactly one " limit 80" to a de-escaped text with
\* no case-insensitive "limit", leaves any other de-escaped text as it is, and
\* returns a text without backslashes that contains "LIMIT 10" unchanged.
C7_CleanupLimit ==
    CleanupDone =>
        LET t == call.sql_string
            d == Deescape(t)
            out == ret.value
        IN  /\ ~HasLimitAnyCase(d) => out = d \o LimitSuffix
            /\ HasLimitAnyCase(d) => out = d
            /\ (~Contains(t, <<BS>>) /\ Contains(t, Limit10)) => out = t

\* C7 witness: a text with an escape sequence and an upper-case LIMIT has
\* been cleaned, and a text without any limit has been cleaned
C7_Witness ==
    /\ CleanupDone
    /\ Contains(call.sql_string, Limit10)
    /\ Contains(call.sql_string, <<BS, "n">>)
    /\ ret.value # call.sql_string
    /\ ~Contains(ret.value, LimitSuffix)

----------------------------------------------------------------------------
(* run_bigquery_validation applied to one statement, with or without a     *)
(* tool context, against each behaviour of the warehouse, in a fresh       *)
(* process.                                                                *)

InitValidate ==
    /\ InitGlobals
    /\ call \in {ValidationCall(t, c, w) :
                    t \in ValidateInputs, c \in {None, Some("ctx")},
                    w \in WarehouseOutcomes}
    /\ Feasible(call.warehouse, bq_client)

Validate ==
    /\ ncalls = 0
    /\ call.op = "run_bigquery_validation"
    /\ run_bigquery_validation(call.sql_string, call.tool_context, call.warehouse)

NextValidate == Validate

SpecValidate == InitValidate /\ [][NextValidate]_vars

ValidateDone == ncalls = 1 /\ call.op = "run_bigquery_validation"

\* a case-insensitive occurrence of a disallowed keyword in the text as given
HasKeywordAnyCase(t) ==
    \E k \in Keywords : \E i \in 1..Len(t) :
        /\ i + Len(k) - 1 <= Len(t)
        /\ \A j \in 1..Len(k) : t[i + j - 1] = k[j] \/ LowerChar(t[i + j - 1]) = k[j]

\* the statement as cleaned passes the keyword gate
PassedGate == ~HasKeywordAnyCase(cleanup_sql(call.sql_string))

\* an exception is raised inside the try block of the call
ExceptionRaised ==
    /\ PassedGate
    /\ \/ call.warehouse.fail # "none"
       \/ call.warehouse.schema /\ IsNone(call.tool_context)

\* the exception's message
ExceptionMsg ==
    IF call.warehouse.fail # "none" THEN call.warehouse.msg ELSE NoneTypeMsg

\* the whole try block ran without an exception
ExecutedOk == PassedGate /\ ~ExceptionRaised

InTrace(x) == \E i \in 1..Len(trace) : trace[i] = x
Count(x) == Cardinality({i \in 1..Len(trace) : trace[i] = x})

\* C1: every returned record has exactly one of query_result and
\* error_message non-null.
C1_ExactlyOneNonNull ==
    ValidateDone =>
        /\ ~ret.raised
        /\ IsNone(ret.value.query_result) # IsNone(ret.value.error_message)

\* C2: a statement with a disallowed keyword anywhere, in any case, is
\* answered with the fixed rejection record and the warehouse's query
\* operation is not invoked.
C2_KeywordRejected ==
    (ValidateDone /\ HasKeywordAnyCase(call.sql_string)) =>
        /\ ~ret.raised
        /\ ret.value = FinalResult(None, Some(DisallowedMsg))
        /\ ~InTrace("query")

\* C2 witness: a statement whose only keyword is inside the identifier
\* updated_at has been rejected
C2_Witness ==
    /\ ValidateDone
    /\ call.sql_string = <<"s", "e", "l", "e", "c", "t", " ", "x",
                           "u", "p", "d", "a", "t", "e", "d", "_", "a", "t">>
    /\ ret.value.error_message = Some(DisallowedMsg)

\* C3: an exception raised while executing a statement that passed the gate
\* is not propagated; the record has a null query_result and the message
\* "Invalid SQL: " followed by the exception's message, and nothing is retried.
C3_ExceptionCaught ==
    (ValidateDone /\ ExceptionRaised) =>
        /\ ~ret.raised
        /\ IsNone(ret.value.query_result)
        /\ ret.value.error_message = Some(InvalidPrefix \o ExceptionMsg)
        /\ Count("query") <= 1

\* the first at most MAX_NUM_ROWS rows of the result, in result order
IsLeadingRows(q, rows) ==
    /\ Len(q) = (IF Len(rows) < MAX_NUM_ROWS THEN Len(rows) ELSE MAX_NUM_ROWS)
    /\ \A i \in 1..Len(q) : q[i] = ConvertRow(rows[i])

C6_NoRowsMessage ==
    (ValidateDone /\ ExecutedOk
        /\ (~call.warehouse.schema \/ Len(call.warehouse.rows) = 0)) =>
        /\ IsNone(ret.value.query_result)
        /\ ret.value.error_message = Some(NoResultsMsg)

----------------------------------------------------------------------------
(* initial_bq_nl2sql applied to one question, against each behaviour of    *)
(* the introspector and of the language model, in a fresh process.         *)

InitGenerate ==
    /\ InitGlobals
    /\ call \in {[op |-> "initial_bq_nl2sql", question |-> q, schema |-> o,
                  completion |-> c] :
                    q \in Questions, o \in SchemaOutcomes, c \in Completions}

Generate ==
    /\ ncalls = 0
    /\ call.op = "initial_bq_nl2sql"
    /\ initial_bq_nl2sql(call.question, call.schema, call.completion)

NextGenerate == Generate

SpecGenerate == InitGenerate /\ [][NextGenerate]_vars

GenerateReturned == ncalls = 1 /\ call.op = "initial_bq_nl2sql" /\ ~ret.raised

NoText(text) == IsNone(text) \/ Len(Val(text)) = 0

AllWhitespace(s) == \A i \in 1..Len(s) : s[i] \in Whitespace

\* out is t without some leading and trailing whitespace, and has none itself
IsStripped(out, t) ==
    /\ Len(out) > 0 => out[1] \notin Whitespace /\ out[Len(out)] \notin Whitespace
    /\ \E i \in 1..(Len(t) + 1) :
          /\ MatchAt(t, out, i)
          /\ AllWhitespace(SubSeq(t, 1, i - 1))
          /\ AllWhitespace(SubSeq(t, i + Len(out), Len(t)))

\* the characters of a text that no marker and no stripping can remove
MarkerChars == {BT, "s", "q", "l"} \cup Whitespace
Residue(s) == SelectSeq(s, LAMBDA c : c \notin MarkerChars)

\* what every returning call of initial_bq_nl2sql yields besides a null sql
GenerateFixedFields ==
    /\ IsNone(ret.value.sql_results)
    /\ IsNone(ret.value.nl_results)
    /\ ret.value.explain = ExplainPrefix \o call.question

\* the sql of a completion that has text: no marker is left, no surrounding
\* whitespace, nothing but markers and surrounding whitespace is gone
GenerateMarkersRemoved ==
    ~NoText(call.completion.text) =>
        LET t == Val(call.completion.text)
            out == Val(ret.value.sql)
        IN  /\ ~IsNone(ret.value.sql)
            /\ ~Contains(out, Fence)
            /\ Residue(out) = Residue(t)
            /\ Len(out) > 0 => out[1] \notin Whitespace /\ out[Len(out)] \notin Whitespace
            /\ ~Contains(t, Fence) => IsStripped(out, t)

----------------------------------------------------------------------------
(* The process: the agent framework calls the tools and the callback one   *)
(* after the other, in any order.                                          *)

ProcessSql == {<<"s", "e", "l", "e", "c", "t", " ", "x">>, <<"D", "R", "O", "P", " ", "t">>}

ProcessOutcomes == {
    Warehouse("client", <<"4", "0", "4">>, FALSE, <<>>),
    Warehouse("query", <<"4", "0", "4">>, FALSE, <<>>),
    Warehouse("none", <<>>, FALSE, <<>>),
    Warehouse("none", <<>>, TRUE, ResultRows("ids", 1)),
    Warehouse("none", <<>>, TRUE, ResultRows("mixed", 2)) }

ProcessCompletions == {
    Completion(TRUE, Some(<<"q", "u", "o", "t", "a">>)),
    Completion(FALSE, None),
    Completion(FALSE, Some(FenceSql \o <<"s", "e", "l", "e", "c", "t", " ", "1">> \o Fence)) }

Init ==
    /\ InitGlobals
    /\ call = NoCall

RunBigqueryValidation ==
    /\ ncalls < MaxCalls
    /\ \E sql \in ProcessSql, c \in {None, Some("ctx")}, w \in ProcessOutcomes :
          run_bigquery_validation(sql, c, w)

GetSettings ==
    /\ ncalls < MaxCalls
    /\ \E o \in SchemaOutcomes : get_database_settings(o)

InitialBqNl2sql ==
    /\ ncalls < MaxCalls
    /\ \E o \in SchemaOutcomes, c \in ProcessCompletions :
          initial_bq_nl2sql(<<"t", "o", "p", " ", "5">>, o, c)

SetupBeforeAgentCall ==
    /\ ncalls < MaxCalls
    /\ \E o \in SchemaOutcomes : setup_before_agent_call(o)

\* the record the agent hands to a presenter after a validation: the record
\* the validation returned, or the agent's own with the rows under sql_results
HandedOver ==
    {ResultRecord(TRUE, ret.value.query_result, FALSE, None, ret.value.error_message),
     ResultRecord(FALSE, None, TRUE, ret.value.query_result, None)}

PresentTable ==
    /\ ncalls < MaxCalls
    /\ call.op = "run_bigquery_validation"
    /\ \E fr \in HandedOver, cols \in {None, Some(<<K_id>>), Some(<<K_zz>>)} :
          display_results_as_table(fr, cols)

PresentSummary ==
    /\ ncalls < MaxCalls
    /\ call.op = "run_bigquery_validation"
    /\ \E fr \in HandedOver : display_results_summary(fr)

Next ==
    \/ RunBigqueryValidation
    \/ GetSettings
    \/ InitialBqNl2sql
    \/ SetupBeforeAgentCall
    \/ PresentTable
    \/ PresentSummary

Spec == Init /\ [][Next]_vars

\* C4 as stated: once get_database_settings has been called, the introspector
\* has been invoked exactly once, by the first call.
C4_Original == settingsCalls >= 1 => schemaCalls = 1

\* C4 amended: the introspector is invoked by every call of
\* get_database_settings until one of them returns and stores the settings, and
\* by no call after that; each later call returns the stored value unchanged.
C4_MemoisedAfterSuccess ==
    [][ /\ (IsNone(database_settings) /\ settingsCalls' > settingsCalls)
            => schemaCalls' = schemaCalls + 1
        /\ ~IsNone(database_settings)
            => /\ schemaCalls' = schemaCalls
               /\ database_settings' = database_settings
               /\ call'.op = "get_database_settings"
                    => ret' = Return(Val(database_settings))
               /\ (call'.op = "setup_before_agent_call"
                   /\ session'.database_settings # session.database_settings)
                    => session'.database_settings = database_settings
      ]_vars

\* C4 witness: after a failed and a successful introspection, a third call
\* of get_database_settings has been served from the stored settings
C4_Witness ==
    /\ settingsCalls = 3
    /\ schemaCalls = 2
    /\ call.op = "get_database_settings"
    /\ ~ret.raised
    /\ trace = <<>>

----------------------------------------------------------------------------
(* A presenter applied to one record.                                      *)

InitPresent ==
    /\ InitGlobals
    /\ call \in {[op |-> "display_results_as_table", final_result |-> fr,
                  relevant_columns |-> cols] : fr \in ResultRecords, cols \in ColumnArgs}
             \cup {[op |-> "display_results_summary", final_result |-> fr,
                    relevant_columns |-> None] : fr \in ResultRecords}

DisplayResultsAsTable ==
    /\ ncalls = 0
    /\ call.op = "display_results_as_table"
    /\ display_results_as_table(call.final_result, call.relevant_columns)

DisplayResultsSummary ==
    /\ ncalls = 0
    /\ call.op = "display_results_summary"
    /\ display_results_summary(call.final_result)

NextPresent ==
    \/ DisplayResultsAsTable
    \/ DisplayResultsSummary

SpecPresent == InitPresent /\ [][NextPresent]_vars

TableDone == ncalls = 1 /\ call.op = "display_results_as_table"
SummaryDone == ncalls = 1 /\ call.op = "display_results_summary"
PresentDone == TableDone \/ SummaryDone

\* a key that is present and holds at least one row
Carries(has, rows) == has /\ ~IsNone(rows) /\ Len(Val(rows)) > 0

\* what the presenter of the call makes of the given rows alone
RenderingOf(rows) ==
    LET only == ResultRecord(TRUE, Some(rows), FALSE, None, call.final_result.error_message)
    IN  IF call.op = "display_results_as_table"
        THEN TableText(only, call.relevant_columns)
        ELSE SummaryText(only)

NoRowsText ==
    IF call.op = "display_results_as_table" THEN NoDisplayMsg ELSE NoSummaryMsg

\* C9 as stated: rows under sql_results are rendered whenever query_result
\* carries none (absent, null or empty), and the rows of query_result are
\* rendered when it carries some.
C9_Original ==
    PresentDone =>
        LET fr == call.final_result
        IN  /\ Carries(fr.has_query_result, fr.query_result)
                => ret.value = RenderingOf(Val(fr.query_result))
            /\ (~Carries(fr.has_query_result, fr.query_result)
                /\ Carries(fr.has_sql_results, fr.sql_results))
                => ret.value = RenderingOf(Val(fr.sql_results))

\* C9 amended: the presenters fall back to sql_results only when the key
\* query_result is absent; a present query_result is the only source, so with
\* a null or empty value the fixed no-results text is returned whatever
\* sql_results holds, and with rows those rows are rendered.
C9_FallbackOnAbsentKey ==
    PresentDone =>
        LET fr == call.final_result
        IN  /\ Carries(fr.has_query_result, fr.query_result)
                => ret.value = RenderingOf(Val(fr.query_result))
            /\ (fr.has_query_result /\ ~Carries(fr.has_query_result, fr.query_result))
                => ret.value = NoRowsText
            /\ (~fr.has_query_result /\ Carries(fr.has_sql_results, fr.sql_results))
                => ret.value = RenderingOf(Val(fr.sql_results))

\* C9 witness: a record without the key query_result has been summarised
\* from the rows under sql_results
C9_Witness ==
    /\ SummaryDone
    /\ ~call.final_result.has_query_result
    /\ call.final_result.sql_results = Some(Rows2x6)
    /\ ret.value # NoSummaryMsg
    /\ ret.value = RenderingOf(Rows2x6)

\* text.split(sep) for a one-character sep
RECURSIVE SplitOn(_, _)
SplitOn(text, sep) ==
    IF ~InSeq(sep, text) THEN <<text>>
    ELSE LET i == CHOOSE k \in 1..Len(text) :
                      text[k] = sep /\ \A j \in 1..(k - 1) : text[j] # sep
         IN  <<SubSeq(text, 1, i - 1)>> \o SplitOn(SubSeq(text, i + 1, Len(text)), sep)

RECURSIVE TrimSpaces(_)
TrimSpaces(text) ==
    IF Len(text) > 0 /\ text[1] = SP THEN TrimSpaces(Tail(text))
    ELSE IF Len(text) > 0 /\ text[Len(text)] = SP
    THEN TrimSpaces(SubSeq(text, 1, Len(text) - 1))
    ELSE text

\* the cells of a "| a | b |" line, without their padding
CellsOf(line) ==
    LET parts == SplitOn(line, "|")
    IN  [j \in 1..(Len(parts) - 2) |-> TrimSpaces(parts[j + 1])]

OutputLines == SplitOn(ret.value, NL)

\* the columns the table shows: the cells of its header row
ShownColumns == CellsOf(OutputLines[2])

NoteLines == SelectSeq(OutputLines, LAMBDA l : MatchAt(l, ShowingLabel, 1))

\* the rows a table call renders, when it renders any
TableRendered == TableDone /\ ret.value # NoDisplayMsg
RenderedRows == Val(SourceRows(call.final_result))

\* the columns the claim prescribes for the first row's keys
PrescribedColumns(keys, columns) ==
    IF IsNone(columns) \/ Val(columns) = <<>>
    THEN keys
    ELSE IF \A j \in 1..Len(Val(columns)) : ~InSeq(Val(columns)[j], keys)
    THEN SubSeq(keys, 1, IF Len(keys) < 5 THEN Len(keys) ELSE 5)
    ELSE SelectSeq(Val(columns), LAMBDA c : InSeq(c, keys))

\* C10: the table shows all keys of the first row when no columns are
\* requested, else the requested columns that are keys of the first row, else
\* (none is) the first 5 keys; and it ends with the note "Showing N of M
\* columns" exactly when it shows fewer columns than the first row has.
C10_ColumnChoice ==
    TableRendered =>
        LET keys == Keys(RenderedRows[1])
        IN  /\ ShownColumns = PrescribedColumns(keys, call.relevant_columns)
            /\ Len(NoteLines) = (IF Len(ShownColumns) < Len(keys) THEN 1 ELSE 0)
            /\ Len(NoteLines) = 1 =>
                  NoteLines[1] = ShowingLabel \o StrNat(Len(ShownColumns)) \o OfLabel
                                     \o StrNat(Len(keys)) \o ColumnsLabel

\* C10 witness: a table of six-column rows asked for an unknown column only
\* shows the first five keys and the note
C10_Witness ==
    /\ TableRendered
    /\ call.relevant_columns = Some(<<K_zz>>)
    /\ RenderedRows = Rows2x6
    /\ ShownColumns = <<K_name, K_id, K_ts, K_ok, K_d>>
    /\ Len(NoteLines) = 1

\* the positions of a character in a line
PositionsOf(line, c) == {i \in 1..Len(line) : line[i] = c}

\* a +---+---+ line
IsBorder(line) ==
    /\ Len(line) >= 2
    /\ line[1] = "+"
    /\ line[Len(line)] = "+"
    /\ \A i \in 1..Len(line) : line[i] \in {"+", "-"}

\* the lines of the table proper: three borders, the header and the data rows
TableLines == SubSeq(OutputLines, 1, Len(RenderedRows) + 4)

\* C11: the table has a +...+ border at the top, below the header row and
\* after the last data row; the header row, every data row and every border
\* have the same length, and every column has the same width in every line.
C11_TableAligned ==
    TableRendered =>
        LET n == Len(RenderedRows)
            border == TableLines[1]
            cells == {2} \cup 4..(n + 3)
        IN  /\ IsBorder(border)
            /\ TableLines[3] = border
            /\ TableLines[n + 4] = border
            /\ \A i \in cells :
                  /\ Len(TableLines[i]) = Len(border)
                  /\ PositionsOf(TableLines[i], "|") = PositionsOf(border, "+")

----------------------------------------------------------------------------
(* The rows run_bigquery_validation returns, field by field.               *)

\* YYYY-MM-DD, digit by digit
IsoDate(y, m, d) ==
    <<Digits[(y \div 1000) + 1], Digits[((y \div 100) % 10) + 1],
      Digits[((y \div 10) % 10) + 1], Digits[(y % 10) + 1], "-",
      Digits[(m \div 10) + 1], Digits[(m % 10) + 1], "-",
      Digits[(d \div 10) + 1], Digits[(d % 10) + 1]>>

\* what the claim prescribes for one value: only a calendar date changes
PrescribedValue(v) ==
    IF v.t = "date" THEN StrV(IsoDate(v.n[1], v.n[2], v.n[3])) ELSE v

RowsReturned == ValidateDone /\ ~IsNone(ret.value.query_result)

\* C12: in every returned row every calendar date is its YYYY-MM-DD string,
\* every value of another type (timestamps and date-times included) is
\* unchanged, and the keys and their order are those of the result's row.
C12_OnlyDatesReformatted ==
    RowsReturned =>
        LET q == Val(ret.value.query_result)
            rows == call.warehouse.rows
        IN  \A i \in 1..Len(q) :
                /\ Len(q[i]) = Len(rows[i])
                /\ \A j \in 1..Len(q[i]) :
                      /\ q[i][j].key = rows[i][j].key
                      /\ q[i][j].value = PrescribedValue(rows[i][j].value)

\* the same without the values that are date-times
C12_DatesAndPlainValues ==
    RowsReturned =>
        LET q == Val(ret.value.query_result)
            rows == call.warehouse.rows
        IN  \A i \in 1..Len(q) :
                /\ Len(q[i]) = Len(rows[i])
                /\ \A j \in 1..Len(q[i]) :
                      /\ q[i][j].key = rows[i][j].key
                      /\ rows[i][j].value.t # "datetime"
                            => q[i][j].value = PrescribedValue(rows[i][j].value)

----------------------------------------------------------------------------
(* The presenters on records without rows, and on the records a validation *)
(* returns on its paths without a result.                                  *)

Presenters == {"display_results_as_table", "display_results_summary"}

\* the fixed text of the presenter named op
FixedTextOf(op) ==
    IF op = "display_results_as_table" THEN NoDisplayMsg ELSE NoSummaryMsg

\* the validation last called was rejected by the gate, ended in an exception
\* or ran a statement whose result has no schema
WithoutResultPath ==
    /\ call.op = "run_bigquery_validation"
    /\ \/ ~PassedGate
       \/ ExceptionRaised
       \/ ExecutedOk /\ ~call.warehouse.schema

\* the record as run_bigquery_validation returned it
ReturnedRecord ==
    ResultRecord(TRUE, ret.value.query_result, FALSE, None, ret.value.error_message)

\* a presenter answers a record whose row source has no rows with its fixed text
RowlessGetsFixedText ==
    (call'.op \in Presenters /\ NoRows(SourceRows(call'.final_result)))
        => ret' = Return(FixedTextOf(call'.op))

\* a presenter given the record of a validation without a result answers
\* with its fixed text
WithoutResultGetsFixedText ==
    (WithoutResultPath /\ call'.op \in Presenters /\ call'.final_result = ReturnedRecord)
        => ret' = Return(FixedTextOf(call'.op))

\* C13: a record whose row source is absent, null or empty is answered with
\* the presenter's fixed text whatever its error_message, and so is every
\* record run_bigquery_validation returns on the rejection, exception and
\* no-result paths.
C13_FixedTextWithoutRows ==
    [][RowlessGetsFixedText /\ WithoutResultGetsFixedText]_vars

\* the first half alone
C13_RowlessOnly == [][RowlessGetsFixedText]_vars

----------------------------------------------------------------------------
(* The session's "query_result" slot over a sequence of calls.             *)

\* the validation call c passes the gate and runs its whole try block on a
\* result with a schema
SucceedsWithSchema(c) ==
    /\ c.op = "run_bigquery_validation"
    /\ \A t \in {cleanup_sql(c.sql_string)} : ~HasKeywordAnyCase(t)
    /\ c.warehouse.fail = "none"
    /\ c.warehouse.schema
    /\ ~IsNone(c.tool_context)

\* one step of the process: a validation that succeeded with a result schema
\* stores the rows it returns, every other call leaves the slot as it was
SlotStep ==
    \A c \in {call'} :
        IF SucceedsWithSchema(c)
        THEN session'.query_result = ret'.value.query_result
        ELSE session'.query_result = session.query_result

\* C14: the slot is unset until a validation succeeds with a result schema;
\* such a call stores exactly the rows it returns, and a call that is
\* rejected by the gate, ends in an exception or succeeds without a schema
\* leaves the slot unchanged, so the slot always holds the rows of the most
\* recent call that succeeded with a schema, also when the latest record's
\* query_result is null.
C14_SlotKeepsLastRows ==
    /\ IsNone(session.query_result)
    /\ [][SlotStep]_vars

\* C14 witness: a validation has just returned a null query_result while
\* the slot still holds the rows of an earlier call
C14_Witness ==
    /\ WithoutResultPath
    /\ IsNone(ret.value.query_result)
    /\ ~IsNone(session.query_result)
    /\ Len(Val(session.query_result)) > 0

====
